---- MODULE Spec2Model ----
(***************************************************************************)
(* State-machine model of the record database (src/src/db.rs) and of the   *)
(* ingest of one DNS exchange (src/src/dns.rs) of dns-delegation-check.    *)
(***************************************************************************)
EXTENDS Integers, Sequences, FiniteSets, Bags, TLC

VARIABLES
  records,          \* RecordDB.records: Name -> (RServer -> REntry)
  delegations,      \* RecordDB.delegations: (name, zone) -> set of (auth_zone, auth_ns)
  answer_targets,   \* RecordDB.answer_targets
  targets,          \* RecordDB.targets
  query_queue,      \* RecordDB.query_queue, front of the VecDeque first
  change_num,       \* RecordDB.change_num
  loop_change_num,  \* the local change_num of action_loop
  pc,               \* position of the (single) thread of control
  transport,        \* which DNS servers the external client talks to
  called            \* the store-mutating calls the caller has made so far

vars == <<records, delegations, answer_targets, targets, query_queue,
          change_num, loop_change_num, pc, transport, called>>

(***************************************************************************)
(* Bounds of the exploration.                                              *)
(***************************************************************************)
\* Number of store-mutating calls the caller makes.
MaxCalls == 2
\* Number of RData values tracked per (name, server) slot.
MaxEntries == 2
\* Length of the queue beyond which the caller stops calling generate_queries.
MaxQueue == 2
\* Width of the change counter: u64 arithmetic is modelled modulo CounterMod.
\* No run in which every loop ends counts this far, so the counter wraps
\* only in runs that mutate the store for ever.
CounterMod == 96

(***************************************************************************)
(* Names: sequences of labels, leftmost label first; the root is << >>.    *)
(***************************************************************************)
Root == << >>
Com == <<"com">>
Google == <<"google", "com">>
Www == <<"www", "google", "com">>
Mail == <<"mail", "google", "com">>
ARoot == <<"a", "root-servers", "net">>
ComNs == <<"a", "gtld-servers", "net">>
GoogleNs == <<"ns1", "google", "com">>

Names == {Root, Com, Google, Www, Mail, ARoot, ComNs, GoogleNs}

\* rr::Name::zone_of: a is an ancestor of, or equal to, b.
ZoneOf(a, b) ==
  /\ Len(a) <= Len(b)
  /\ \A i \in 1..Len(a) : a[Len(a) - i + 1] = b[Len(b) - i + 1]

\* Rank of a label in the (case-insensitive) label order.
LabelRank(l) ==
  CASE l = "a" -> 1
    [] l = "com" -> 2
    [] l = "google" -> 3
    [] l = "gtld-servers" -> 4
    [] l = "mail" -> 5
    [] l = "net" -> 6
    [] l = "ns1" -> 7
    [] l = "root-servers" -> 8
    [] l = "www" -> 9

\* Ord of rr::Name: labels compared from the root side, a proper ancestor first.
RECURSIVE NameLessFrom(_, _, _)
NameLessFrom(a, b, i) ==
  IF i > Len(a) THEN i <= Len(b)
  ELSE IF i > Len(b) THEN FALSE
  ELSE LET la == a[Len(a) - i + 1]
           lb == b[Len(b) - i + 1]
       IN IF la = lb THEN NameLessFrom(a, b, i + 1)
          ELSE LabelRank(la) < LabelRank(lb)

NameLess(a, b) == NameLessFrom(a, b, 1)

\* The keys of a BTreeMap<Name, _> in iteration order.
RECURSIVE SortedNames(_)
SortedNames(S) ==
  IF S = {} THEN << >>
  ELSE LET m == CHOOSE x \in S : \A y \in S \ {x} : NameLess(x, y)
       IN <<m>> \o SortedNames(S \ {m})

(***************************************************************************)
(* Addresses, server keys, resource data, record entries.                  *)
(***************************************************************************)
V4(n) == [fam |-> "V4", a |-> n]
V6(n) == [fam |-> "V6", a |-> n]

\* RServer
Hint == [k |-> "Hint", a |-> 0]

\* A server key that is not the one of the address: V6 collapses onto Hint.
RServerFromCollapsed(ip) ==
  IF ip.fam = "V4" THEN [k |-> "V4", a |-> ip.a] ELSE Hint

\* impl From<IpAddr> for RServer
RServerFrom(ip) ==
  IF ip.fam = "V4" THEN [k |-> "V4", a |-> ip.a] ELSE [k |-> "V6", a |-> ip.a]

\* RData: the record type t, an address payload a, a name payload n.
RA(x) == [t |-> "A", a |-> x, n |-> << >>]
RAAAA(x) == [t |-> "AAAA", a |-> x, n |-> << >>]
RNS(nm) == [t |-> "NS", a |-> 0, n |-> nm]
RSOA == [t |-> "SOA", a |-> 0, n |-> << >>]

\* RData::to_record_type, RData::to_ip_addr, RData::as_ns
ToRecordType(rd) == rd.t
ToIpAddr(rd) == IF rd.t = "A" THEN V4(rd.a) ELSE V6(rd.a)

\* rr::Record: owner name and rdata.
Rec(nm, rd) == [name |-> nm, rdata |-> rd]

\* REntry
NoEntry == [k |-> "NoEntry", v |-> << >>]
TimeOut == [k |-> "TimeOut", v |-> << >>]
Entries(v) == [k |-> "Entries", v |-> v]

Range(s) == {s[i] : i \in 1..Len(s)}

RECURSIVE Reverse(_)
Reverse(s) == IF s = << >> THEN << >> ELSE Reverse(Tail(s)) \o <<Head(s)>>

\* Every order in which the elements of a HashSet can be iterated.
RECURSIVE Orderings(_)
Orderings(S) ==
  IF S = {} THEN {<< >>}
  ELSE UNION {{<<x>> \o r : r \in Orderings(S \ {x})} : x \in S}

(***************************************************************************)
(* The store as a value: the fields of RecordDB that the mutators change.  *)
(***************************************************************************)
EmptyMap == [x \in {} |-> x]

\* RecordDB::new
NewDB ==
  [records |-> EmptyMap, delegations |-> EmptyMap, answer_targets |-> {},
   targets |-> {}, change_num |-> 0]

\* self.change_num += 1
Bump(c) == (c + 1) % CounterMod

HasSlot(recs, nm, s) == nm \in DOMAIN recs /\ s \in DOMAIN recs[nm]

\* .entry(name).or_insert_with(BTreeMap::new).entry(server) set to e
Put(recs, nm, s, e) ==
  LET old == IF nm \in DOMAIN recs THEN recs[nm] ELSE EmptyMap
      new == [y \in DOMAIN old \cup {s} |-> IF y = s THEN e ELSE old[y]]
  IN [x \in DOMAIN recs \cup {nm} |-> IF x = nm THEN new ELSE recs[x]]

\* The and_modify/or_insert_with closure of add_root_hints on a Hint slot.
PutHint(recs, nm, rd) ==
  IF HasSlot(recs, nm, Hint)
  THEN LET e == recs[nm][Hint]
       IN IF e.k = "Entries"
          THEN Put(recs, nm, Hint, Entries(Append(e.v, rd)))
          ELSE Put(recs, nm, Hint, Entries(<<rd>>))
  ELSE Put(recs, nm, Hint, Entries(<<rd>>))

\* RecordDB::add_root_hints, one (name, ip) of the list after the other.
RECURSIVE add_root_hints(_, _)
add_root_hints(db, hints) ==
  IF hints = << >> THEN db
  ELSE LET h == Head(hints)
           rdata == IF h.ip.fam = "V4" THEN RA(h.ip.a) ELSE RAAAA(h.ip.a)
           r1 == PutHint(db.records, h.name, rdata)
           r2 == PutHint(r1, Root, RNS(h.name))
       IN add_root_hints([db EXCEPT !.records = r2], Tail(hints))

\* add_delegation keyed by the delegated-to zone instead of the queried zone.
add_delegation_wrong_key(db, name, zone, auth_zone, auth_ns) ==
  LET key == <<name, auth_zone>>
      old == IF key \in DOMAIN db.delegations THEN db.delegations[key] ELSE {}
  IN [db EXCEPT
        !.change_num = Bump(@),
        !.delegations = [x \in DOMAIN @ \cup {key} |->
                           IF x = key THEN old \cup {<<auth_zone, auth_ns>>}
                           ELSE @[x]]]

\* RecordDB::add_delegation
add_delegation(db, name, zone, auth_zone, auth_ns) ==
  LET key == <<name, zone>>
      old == IF key \in DOMAIN db.delegations THEN db.delegations[key] ELSE {}
  IN [db EXCEPT
        !.change_num = Bump(@),
        !.delegations = [x \in DOMAIN @ \cup {key} |->
                           IF x = key THEN old \cup {<<auth_zone, auth_ns>>}
                           ELSE @[x]]]

\* add_record that overwrites an Entries slot instead of pushing onto it.
add_record_overwrite(db, rec, ip) ==
  [db EXCEPT
     !.change_num = Bump(@),
     !.records = Put(@, rec.name, RServerFrom(ip), Entries(<<rec.rdata>>))]

\* RecordDB::add_record
add_record(db, rec, ip) ==
  LET s == RServerFrom(ip)
      new == IF HasSlot(db.records, rec.name, s)
             THEN LET e == db.records[rec.name][s]
                  IN CASE e.k = "Entries" -> Entries(Append(e.v, rec.rdata))
                       [] e.k = "TimeOut" -> Entries(<<rec.rdata>>)
                       [] e.k = "NoEntry" -> Entries(<<rec.rdata>>)
             ELSE Entries(<<rec.rdata>>)
  IN [db EXCEPT
        !.change_num = Bump(@),
        !.records = Put(@, rec.name, s, new)]

\* add_rentry that lets a later TimeOut replace NoEntry.
add_rentry_last_wins(db, name, rentry, ip) ==
  LET s == RServerFrom(ip)
      new == IF HasSlot(db.records, name, s)
             THEN LET e == db.records[name][s]
                  IN IF e.k = "Entries" THEN e ELSE rentry
             ELSE rentry
  IN [db EXCEPT
        !.change_num = Bump(@),
        !.records = Put(@, name, s, new)]

\* RecordDB::add_rentry
add_rentry(db, name, rentry, ip) ==
  LET s == RServerFrom(ip)
      new == IF HasSlot(db.records, name, s)
             THEN LET e == db.records[name][s]
                  IN CASE e.k = "Entries" -> e
                       [] e.k = "TimeOut" -> rentry
                       [] e.k = "NoEntry" ->
                            IF rentry.k = "TimeOut" THEN NoEntry ELSE e
             ELSE rentry
  IN [db EXCEPT
        !.change_num = Bump(@),
        !.records = Put(@, name, s, new)]

\* RecordDB::get_records
get_records(db, name) ==
  IF name \in DOMAIN db.records THEN db.records[name] ELSE EmptyMap

\* The items get_record_set inserts into its HashSet<RDataHash>.
RecordSetItems(db, name, rtype) ==
  IF name \notin DOMAIN db.records THEN {}
  ELSE LET servers == db.records[name]
       IN UNION {IF servers[s].k = "Entries"
                 THEN {servers[s].v[i] :
                         i \in {j \in 1..Len(servers[s].v) :
                                  ToRecordType(servers[s].v[j]) = rtype}}
                 ELSE {} : s \in DOMAIN servers}

\* The items of a slot's list that have the type, in list order.
RECURSIVE FilterType(_, _)
FilterType(v, rtype) ==
  IF v = << >> THEN << >>
  ELSE (IF ToRecordType(Head(v)) = rtype THEN <<Head(v)>> ELSE << >>)
         \o FilterType(Tail(v), rtype)

\* get_record_set collecting into a Vec directly, without the HashSet.
get_record_set_no_dedup(db, name, rtype) ==
  IF name \notin DOMAIN db.records THEN {<< >>}
  ELSE LET servers == db.records[name]
           Cat[S \in SUBSET DOMAIN servers] ==
             IF S = {} THEN {<< >>}
             ELSE UNION {{FilterType(servers[s].v, rtype) \o r : r \in Cat[S \ {s}]}
                           : s \in S}
       IN Cat[DOMAIN servers]

\* RecordDB::get_record_set: the vectors it can return (the order in which
\* the HashSet is drained is not determined).
get_record_set(db, name, rtype) == Orderings(RecordSetItems(db, name, rtype))

\* add_answer_target that forgets the root target.
add_answer_target_no_target(db, name, rtype) ==
  [db EXCEPT
     !.answer_targets = @ \cup {<<name, rtype>>},
     !.change_num = Bump(@)]

\* RecordDB::add_answer_target
add_answer_target(db, name, rtype) ==
  [db EXCEPT
     !.answer_targets = @ \cup {<<name, rtype>>},
     !.targets = @ \cup {<<name, rtype, Root>>},
     !.change_num = Bump(@)]

\* is_answer_target that never finds the pair.
is_answer_target_never(db, name, rtype) == FALSE

\* RecordDB::is_answer_target
is_answer_target(db, name, rtype) == <<name, rtype>> \in db.answer_targets

\* RecordDB::add_target
add_target(db, name, rtype, zone) ==
  [db EXCEPT
     !.targets = @ \cup {<<name, rtype, zone>>},
     !.change_num = Bump(@)]

\* rname.iter().rev().zip(name.iter().rev()).filter(|(a, b)| a == b).count()
MatchCount(rname, name) ==
  LET m == IF Len(rname) < Len(name) THEN Len(rname) ELSE Len(name)
  IN Cardinality({i \in 1..m :
                    rname[Len(rname) - i + 1] = name[Len(name) - i + 1]})

\* The for loop of find_closest_domain over the remaining keys.
RECURSIVE ClosestFrom(_, _, _, _)
ClosestFrom(keys, name, match_name, match_count) ==
  IF keys = << >> THEN match_name
  ELSE LET rname == Head(keys)
       IN IF ~ZoneOf(rname, name)
          THEN ClosestFrom(Tail(keys), name, match_name, match_count)
          ELSE IF MatchCount(rname, name) > match_count
               THEN ClosestFrom(Tail(keys), name, rname, MatchCount(rname, name))
               ELSE ClosestFrom(Tail(keys), name, match_name, match_count)

\* find_closest_domain without the zone_of test.
find_closest_domain_no_zone_test(db, name) ==
  LET Best[i \in 0..Len(SortedNames(DOMAIN db.records))] ==
        IF i = 0 THEN <<Root, 0>>
        ELSE LET rname == SortedNames(DOMAIN db.records)[i]
             IN IF MatchCount(rname, name) > Best[i - 1][2]
                THEN <<rname, MatchCount(rname, name)>>
                ELSE Best[i - 1]
  IN Best[Len(SortedNames(DOMAIN db.records))][1]

\* RecordDB::find_closest_domain
find_closest_domain(db, name) ==
  ClosestFrom(SortedNames(DOMAIN db.records), name, Root, 0)

(***************************************************************************)
(* The planner.                                                            *)
(***************************************************************************)
\* A queue element (name, rtype, ip, Some(zone)); an Option is a sequence of
\* at most one element.
Probe(name, rtype, ip, zone) ==
  [name |-> name, rtype |-> rtype, ip |-> ip, zone |-> <<zone>>]

\* The inner "for ip in &ns_ips" of generate_queries: one push per address.
ProbesOfAll(tgt, ns_ips) ==
  [i \in 1..Len(ns_ips) |-> Probe(tgt[1], tgt[2], ToIpAddr(ns_ips[i]), tgt[3])]

\* A planner that, for a name server without a known address, enqueues a
\* probe to the unspecified address.
RECURSIVE IpLoopBlind(_, _, _, _)
IpLoopBlind(db, tgt, ns_ips, rest) ==
  IF ns_ips = << >> THEN <<Probe(tgt[1], tgt[2], V4(0), tgt[3])>>
  ELSE IF rest = << >> THEN << >>
  ELSE (IF RServerFrom(ToIpAddr(Head(rest))) \notin DOMAIN get_records(db, tgt[1])
        THEN ProbesOfAll(tgt, ns_ips)
        ELSE << >>)
       \o IpLoopBlind(db, tgt, ns_ips, Tail(rest))

\* The outer "for ip in &ns_ips" over the addresses still to visit: the
\* pushes it makes, in the order it makes them.
RECURSIVE IpLoop(_, _, _, _)
IpLoop(db, tgt, ns_ips, rest) ==
  IF rest = << >> THEN << >>
  ELSE (IF RServerFrom(ToIpAddr(Head(rest))) \notin DOMAIN get_records(db, tgt[1])
        THEN ProbesOfAll(tgt, ns_ips)
        ELSE << >>)
       \o IpLoop(db, tgt, ns_ips, Tail(rest))

\* "for ns in zone_ns": the sequences of pushes it can make.
RECURSIVE NsLoop(_, _, _)
NsLoop(db, tgt, zone_ns) ==
  IF zone_ns = << >> THEN {<< >>}
  ELSE {h \o t :
          h \in {IpLoop(db, tgt, ns_ips, ns_ips) :
                   ns_ips \in get_record_set(db, Head(zone_ns).n, "A")},
          t \in NsLoop(db, tgt, Tail(zone_ns))}

\* "for (name, rtype, zone) in &self.targets", the targets in the given order.
RECURSIVE TargetLoop(_, _)
TargetLoop(db, tseq) ==
  IF tseq = << >> THEN {<< >>}
  ELSE {h \o t :
          h \in UNION {NsLoop(db, Head(tseq), zone_ns) :
                         zone_ns \in get_record_set(db, Head(tseq)[3], "NS")},
          t \in TargetLoop(db, Tail(tseq))}

\* The sequences of pushes one call of generate_queries can make.
PlannerPushes(db) == UNION {TargetLoop(db, ord) : ord \in Orderings(db.targets)}

\* RecordDB::generate_queries: the (queue, change_num) it can leave; every
\* push is a push_front and bumps the counter.
generate_queries(db, queue) ==
  {[queue |-> Reverse(p) \o queue,
    change_num |-> (db.change_num + Len(p)) % CounterMod] : p \in PlannerPushes(db)}

(***************************************************************************)
(* Ingest of one exchange (dns::query_record).                             *)
(***************************************************************************)
Msg(an, ad, au) == [answers |-> an, additionals |-> ad, name_servers |-> au]
Response(msgs) == [kind |-> "response", msgs |-> msgs]
TimeoutErr == [kind |-> "timeout", msgs |-> << >>]
OtherErr == [kind |-> "error", msgs |-> << >>]

\* "for rec in msg.answers()" and "for rec in msg.additionals()"
RECURSIVE AddRecords(_, _, _)
AddRecords(db, recs, ip) ==
  IF recs = << >> THEN db
  ELSE AddRecords(add_record(db, Head(recs), ip), Tail(recs), ip)

\* "for rec in msg.name_servers()"
RECURSIVE AddAuthorities(_, _, _, _, _, _)
AddAuthorities(db, recs, ip, name, rtype, zone) ==
  IF recs = << >> THEN db
  ELSE LET rec == Head(recs)
           d1 == add_record(db, rec, ip)
           d2 == IF rec.rdata.t = "NS" /\ zone # << >>
                 THEN add_delegation(d1, name, zone[1], rec.name, rec.rdata.n)
                 ELSE d1
           d3 == IF is_answer_target(d2, name, rtype)
                 THEN add_target(d2, name, rtype, rec.name)
                 ELSE d2
       IN AddAuthorities(d3, Tail(recs), ip, name, rtype, zone)

\* "for msg in result.messages()"
RECURSIVE IngestMessages(_, _, _, _, _, _)
IngestMessages(db, msgs, ip, name, rtype, zone) ==
  IF msgs = << >> THEN db
  ELSE LET m == Head(msgs)
           d1 == AddRecords(db, m.answers, ip)
           d2 == AddRecords(d1, m.additionals, ip)
           d3 == AddAuthorities(d2, m.name_servers, ip, name, rtype, zone)
       IN IngestMessages(d3, Tail(msgs), ip, name, rtype, zone)

\* A has_answer that is set whatever the messages hold.
HasAnswerAlways(msgs) == TRUE

\* has_answer after the loop over the messages
HasAnswer(msgs) == \E i \in 1..Len(msgs) : msgs[i].answers # << >>

\* dns::query_record for a timeout or a response (any other error panics
\* before the store is touched).
query_record(db, ip, name, rtype, zone, outcome) ==
  IF outcome.kind = "timeout"
  THEN add_rentry(db, name, TimeOut, ip)
  ELSE LET d == IngestMessages(db, outcome.msgs, ip, name, rtype, zone)
       IN IF ~HasAnswer(outcome.msgs)
          THEN add_rentry(d, name, NoEntry, ip)
          ELSE d

(***************************************************************************)
(* The DNS servers (do_dns_query and what is behind it).                   *)
(***************************************************************************)
\* dns::root_hints, the first server of the table with both its addresses.
RootHints == <<[name |-> ARoot, ip |-> V4(1)], [name |-> ARoot, ip |-> V6(1)]>>

DelegateCom ==
  Response(<<Msg(<< >>, <<Rec(ComNs, RA(2)), Rec(ComNs, RA(3))>>,
                 <<Rec(Com, RNS(ComNs))>>)>>)
DelegateGoogle ==
  Response(<<Msg(<< >>, <<Rec(GoogleNs, RA(5))>>, <<Rec(Google, RNS(GoogleNs))>>)>>)
Answer(name) == Response(<<Msg(<<Rec(name, RA(4))>>, << >>, << >>)>>)
EmptyResponse == Response(<<Msg(<< >>, << >>, << >>)>>)
SoaOnly == Response(<<Msg(<< >>, << >>, <<Rec(Com, RSOA)>>)>>)
\* An answer section whose only record is owned by another name.
StrayAnswer(name) == Answer(IF name = Www THEN Google ELSE Www)

\* The servers of scenario S2: the root server delegates to com. (one NS
\* name with two glue addresses), the com. servers delegate to google.com.,
\* the google.com. server answers.
S2Answer(ip, name, rtype) ==
  CASE ip = V4(1) -> DelegateCom
    [] ip \in {V4(2), V4(3)} -> DelegateGoogle
    [] ip = V4(5) -> IF name = Google /\ rtype = "A" THEN Answer(name)
                     ELSE EmptyResponse
    [] OTHER -> TimeoutErr

\* What the client can return for a probe: the servers of S2; those of S4,
\* which answer with empty sections; servers that answer with a record of
\* another owner; servers of which each exchange can time out, fail, or
\* bring an empty, an answering or an SOA-only reply.
Outcomes(ip, name, rtype) ==
  IF transport = "S2" THEN {S2Answer(ip, name, rtype)}
  ELSE IF transport = "S4" THEN {EmptyResponse}
  ELSE IF transport = "stray" THEN {StrayAnswer(name)}
  ELSE {TimeoutErr, OtherErr, EmptyResponse, Answer(name), SoaOnly}

(***************************************************************************)
(* The state machine.                                                      *)
(***************************************************************************)
\* The store the variables hold.
CurDB ==
  [records |-> records, delegations |-> delegations,
   answer_targets |-> answer_targets, targets |-> targets,
   change_num |-> change_num]

Store(db) ==
  /\ records' = db.records
  /\ delegations' = db.delegations
  /\ answer_targets' = db.answer_targets
  /\ targets' = db.targets
  /\ change_num' = db.change_num

\* Every list of the store is within the tracked length.
Fits(db) ==
  \A nm \in DOMAIN db.records : \A s \in DOMAIN db.records[nm] :
    Len(db.records[nm][s].v) <= MaxEntries

\* Cutting the lists to the tracked length loses no value, only repetitions.
Lossless(db) ==
  \A nm \in DOMAIN db.records : \A s \in DOMAIN db.records[nm] :
    LET v == db.records[nm][s].v
    IN Len(v) > MaxEntries => Range(SubSeq(v, 1, MaxEntries)) = Range(v)

\* The store with every list cut to the tracked length.
Compact(db) ==
  [db EXCEPT !.records =
     [nm \in DOMAIN @ |->
        [s \in DOMAIN @[nm] |->
           IF Len(@[nm][s].v) > MaxEntries
           THEN [@[nm][s] EXCEPT !.v = SubSeq(@, 1, MaxEntries)]
           ELSE @[nm][s]]]]

\* A call of the caller: the operation, its name argument, its record type
\* (or rentry kind) argument and its address argument, where it has them.
NoIp == V4(0)
Call(op, name, kind, ip) == [op |-> op, name |-> name, kind |-> kind, ip |-> ip]

\* The arguments the caller draws its calls from.
HintLists == {RootHints}
ApiRecords == {Rec(Com, RNS(ComNs)), Rec(ComNs, RA(2)), Rec(Google, RA(4))}
ApiIps == {V4(1), V6(1)}
ApiRentries == {TimeOut, NoEntry, Entries(<<RA(4)>>)}
ApiAnswerTargets == {<<Google, "A">>}
ApiTargets == {<<Google, "A", Com>>}
TransportKinds == {"S2", "S4", "stray", "mixed"}

Init ==
  /\ records = NewDB.records
  /\ delegations = NewDB.delegations
  /\ answer_targets = NewDB.answer_targets
  /\ targets = NewDB.targets
  /\ change_num = NewDB.change_num
  /\ query_queue = << >>
  /\ loop_change_num = 0
  /\ pc = "idle"
  /\ transport \in TransportKinds
  /\ called = EmptyBag

\* A store-mutating call by the caller that leaves db.
Mutate(db, call) ==
  /\ pc = "idle"
  /\ BagCardinality(called) < MaxCalls
  /\ Fits(db)
  /\ Store(db)
  /\ called' = called (+) SetToBag({call})
  /\ UNCHANGED <<query_queue, loop_change_num, pc, transport>>

AddRootHints ==
  \E hints \in HintLists :
    Mutate(add_root_hints(CurDB, hints), Call("add_root_hints", Root, "", NoIp))

AddRecord ==
  \E rec \in ApiRecords, ip \in ApiIps :
    Mutate(add_record(CurDB, rec, ip), Call("add_record", rec.name, rec.rdata.t, ip))

AddRentry ==
  \E rentry \in ApiRentries, ip \in ApiIps :
    Mutate(add_rentry(CurDB, Google, rentry, ip), Call("add_rentry", Google, rentry.k, ip))

AddDelegation ==
  Mutate(add_delegation(CurDB, Google, Root, Com, ComNs),
         Call("add_delegation", Google, "", NoIp))

AddAnswerTarget ==
  \E t \in ApiAnswerTargets :
    Mutate(add_answer_target(CurDB, t[1], t[2]),
           Call("add_answer_target", t[1], t[2], NoIp))

AddTarget ==
  \E t \in ApiTargets :
    Mutate(add_target(CurDB, t[1], t[2], t[3]), Call("add_target", t[1], t[2], NoIp))

\* generate_queries called by the caller.
GenerateQueries ==
  /\ pc = "idle"
  /\ Len(query_queue) < MaxQueue
  /\ \E g \in generate_queries(CurDB, query_queue) :
       /\ query_queue' = g.queue
       /\ change_num' = g.change_num
  /\ UNCHANGED <<records, delegations, answer_targets, targets,
                 loop_change_num, pc, transport, called>>

\* perform_queries called by the caller: the while let loop starts.
PerformQueries ==
  /\ pc = "idle"
  /\ pc' = "perform"
  /\ UNCHANGED <<records, delegations, answer_targets, targets, query_queue,
                 change_num, loop_change_num, transport, called>>

\* action_loop is called: let mut change_num = 0.
ActionLoop ==
  /\ pc = "idle"
  /\ loop_change_num' = 0
  /\ pc' = "loop_test"
  /\ UNCHANGED <<records, delegations, answer_targets, targets, query_queue,
                 change_num, transport, called>>

\* while change_num != self.change_num { change_num = self.change_num; ...
LoopEnter ==
  /\ pc = "loop_test"
  /\ loop_change_num # change_num
  /\ loop_change_num' = change_num
  /\ pc' = "loop_generate"
  /\ UNCHANGED <<records, delegations, answer_targets, targets, query_queue,
                 change_num, transport, called>>

\* An action_loop that returns at its test whatever the counters are.
LoopExitUntested ==
  /\ pc = "loop_test"
  /\ pc' = "idle"
  /\ UNCHANGED <<records, delegations, answer_targets, targets, query_queue,
                 change_num, loop_change_num, transport, called>>

\* ... the condition is false: action_loop returns.
LoopExit ==
  /\ pc = "loop_test"
  /\ loop_change_num = change_num
  /\ pc' = "idle"
  /\ UNCHANGED <<records, delegations, answer_targets, targets, query_queue,
                 change_num, loop_change_num, transport, called>>

\* self.generate_queries() in the loop body.
LoopGenerate ==
  /\ pc = "loop_generate"
  /\ \E g \in generate_queries(CurDB, query_queue) :
       /\ query_queue' = g.queue
       /\ change_num' = g.change_num
  /\ pc' = "loop_perform"
  /\ UNCHANGED <<records, delegations, answer_targets, targets,
                 loop_change_num, transport, called>>

\* One turn of perform_queries: pop_front, the exchange, its ingest.
QueryStep ==
  /\ pc \in {"perform", "loop_perform"}
  /\ query_queue # << >>
  /\ LET q == Head(query_queue)
     IN \E o \in Outcomes(q.ip, q.name, q.rtype) :
          /\ o.kind # "error"
          /\ LET d == query_record(CurDB, q.ip, q.name, q.rtype, q.zone, o)
             IN Lossless(d) /\ Store(Compact(d))
  /\ query_queue' = Tail(query_queue)
  /\ UNCHANGED <<loop_change_num, pc, transport, called>>

\* One turn of perform_queries whose exchange fails with another error than
\* a timeout: unimplemented!() panics.
QueryPanic ==
  /\ pc \in {"perform", "loop_perform"}
  /\ query_queue # << >>
  /\ LET q == Head(query_queue)
     IN OtherErr \in Outcomes(q.ip, q.name, q.rtype)
  /\ query_queue' = Tail(query_queue)
  /\ pc' = "panicked"
  /\ UNCHANGED <<records, delegations, answer_targets, targets, change_num,
                 loop_change_num, transport, called>>

\* A perform_queries that returns whether or not the queue is empty.
PerformDoneEarly ==
  /\ pc \in {"perform", "loop_perform"}
  /\ pc' = IF pc = "perform" THEN "idle" ELSE "loop_test"
  /\ UNCHANGED <<records, delegations, answer_targets, targets, query_queue,
                 change_num, loop_change_num, transport, called>>

\* The queue is empty: perform_queries returns.
PerformDone ==
  /\ pc \in {"perform", "loop_perform"}
  /\ query_queue = << >>
  /\ pc' = IF pc = "perform" THEN "idle" ELSE "loop_test"
  /\ UNCHANGED <<records, delegations, answer_targets, targets, query_queue,
                 change_num, loop_change_num, transport, called>>

Next ==
  \/ AddRootHints
  \/ AddRecord
  \/ AddRentry
  \/ AddDelegation
  \/ AddAnswerTarget
  \/ AddTarget
  \/ GenerateQueries
  \/ PerformQueries
  \/ ActionLoop
  \/ LoopEnter
  \/ LoopExit
  \/ LoopGenerate
  \/ QueryStep
  \/ QueryPanic
  \/ PerformDone

Spec == Init /\ [][Next]_vars

\* The thread runs: a step is taken whenever one is possible.
FairSpec == Spec /\ WF_vars(Next)

(***************************************************************************)
(* Properties.                                                             *)
(***************************************************************************)
InLoop == pc \in {"loop_test", "loop_generate", "loop_perform"}

\* C1: action_loop terminates: once the loop is entered, it is left, whatever
\* the servers answer (a timeout or a response to every probe); a run in
\* which an exchange fails otherwise is outside the claim.
C1_LoopTerminates == InLoop ~> (pc = "idle" \/ pc = "panicked")

\* The caller has seeded the root hints and the answer target
\* (google.com., A), and has made no other store-mutating call.
S2Seeded ==
  BagToSet(called) = {Call("add_root_hints", Root, "", NoIp),
                      Call("add_answer_target", Google, "A", NoIp)}

\* action_loop is about to return: its while condition is false.
LoopEnds == pc = "loop_test" /\ loop_change_num = change_num

GoogleResolved ==
  /\ \A v \in get_record_set(CurDB, Google, "A") : v # << >>
  /\ {<<Google, Root>>, <<Google, Com>>} \subseteq DOMAIN delegations

\* C2: with the root hints and the answer target (google.com., A) seeded and
\* the servers of scenario S2, action_loop ends in a state where
\* get_record_set(google.com., A) is non-empty and the delegation ledger has
\* the keys (google.com., .) and (google.com., com.).
C2_DelegationWalk ==
  (transport = "S2" /\ S2Seeded /\ LoopEnds) => GoogleResolved

C2_Witness == transport = "S2" /\ S2Seeded /\ LoopEnds /\ GoogleResolved

\* The slot of (name, ip) in records, << >> when there is none.
SlotOf(recs, nm, s) == IF HasSlot(recs, nm, s) THEN <<recs[nm][s]>> ELSE << >>

\* The step is the caller's call c.
Calls(c) == called' = called (+) SetToBag({c})

\* C3: add_rentry(name, r, ip) with r TimeOut or NoEntry: an empty slot
\* becomes r, Entries stays as it is, TimeOut becomes r, NoEntry stays.
C3_AddRentryAbsorbs ==
  [][/\ \A r \in {TimeOut, NoEntry}, ip \in ApiIps :
       Calls(Call("add_rentry", Google, r.k, ip)) =>
         LET old == SlotOf(records, Google, RServerFrom(ip))
             new == SlotOf(records', Google, RServerFrom(ip))
         IN new = IF old = << >> THEN <<r>>
                  ELSE IF old[1].k = "Entries" THEN old
                  ELSE IF old[1].k = "TimeOut" THEN <<r>>
                  ELSE <<NoEntry>>
     /\ \A nm \in DOMAIN records : \A s \in DOMAIN records[nm] :
          records[nm][s].k = "NoEntry" =>
            HasSlot(records', nm, s) /\ records'[nm][s].k # "TimeOut"]_vars

\* add_rentry was called with TimeOut and with NoEntry for one server, and
\* the slot holds NoEntry.
C3_Witness ==
  \E ip \in ApiIps :
    /\ BagToSet(called) = {Call("add_rentry", Google, "TimeOut", ip),
                           Call("add_rentry", Google, "NoEntry", ip)}
    /\ SlotOf(records, Google, RServerFrom(ip)) = <<NoEntry>>

IsPrefix(v, w) == Len(v) <= Len(w) /\ SubSeq(w, 1, Len(v)) = v

\* C4: add_record of x makes an empty, TimeOut or NoEntry slot Entries([x])
\* and an Entries(xs) slot Entries(xs ++ [x]); and no step turns an Entries
\* slot into another state or removes an element of its list.
C4_EntriesMonotone ==
  [][/\ \A rec \in ApiRecords, ip \in ApiIps :
          Calls(Call("add_record", rec.name, rec.rdata.t, ip)) =>
            LET old == SlotOf(records, rec.name, RServerFrom(ip))
                new == SlotOf(records', rec.name, RServerFrom(ip))
            IN new = IF old # << >> /\ old[1].k = "Entries"
                     THEN <<Entries(old[1].v \o <<rec.rdata>>)>>
                     ELSE <<Entries(<<rec.rdata>>)>>
     /\ \A nm \in DOMAIN records : \A s \in DOMAIN records[nm] :
          records[nm][s].k = "Entries" =>
            /\ HasSlot(records', nm, s)
            /\ records'[nm][s].k = "Entries"
            /\ IsPrefix(records[nm][s].v, records'[nm][s].v)]_vars

\* add_record was called twice for one slot, which holds both values.
C4_Witness ==
  \E rec \in ApiRecords, ip \in ApiIps :
    /\ BagToSet(called) = {Call("add_record", rec.name, rec.rdata.t, ip)}
    /\ BagCardinality(called) = 2
    /\ SlotOf(records, rec.name, RServerFrom(ip))
         = <<Entries(<<rec.rdata, rec.rdata>>)>>

\* C5: every (name, Hint) slot that exists holds Entries.
C5_HintHoldsEntries ==
  \A nm \in DOMAIN records :
    Hint \in DOMAIN records[nm] => records[nm][Hint].k = "Entries"

\* The hints are seeded and a server's slot holds TimeOut or NoEntry.
C5_Witness ==
  /\ HasSlot(records, Root, Hint)
  /\ \E nm \in DOMAIN records : \E s \in DOMAIN records[nm] :
       records[nm][s].k \in {"TimeOut", "NoEntry"}

RecordTypes == {"A", "AAAA", "NS", "SOA"}

\* The values of the type that some server's Entries list under the name holds.
StoredValues(nm, rtype) ==
  IF nm \notin DOMAIN records THEN {}
  ELSE {rd \in UNION {Range(records[nm][s].v) :
                        s \in {x \in DOMAIN records[nm] :
                                 records[nm][x].k = "Entries"}} :
          rd.t = rtype}

NoRepeat(v) == \A i, j \in 1..Len(v) : v[i] = v[j] => i = j

\* C6: get_record_set(n, t) returns exactly the values of type t that occur
\* in some server's Entries list under n, each once; it is empty when n is
\* not stored.
C6_RecordSetExact ==
  \A nm \in Names, rtype \in RecordTypes :
    \A v \in get_record_set(CurDB, nm, rtype) :
      /\ NoRepeat(v)
      /\ Range(v) = StoredValues(nm, rtype)
      /\ \A i \in 1..Len(v) : v[i].t \in RecordTypes
      /\ nm \notin DOMAIN records => v = << >>

\* The root holds the same NS value twice, a root server's slot holds an A
\* and an AAAA value, and some slot holds TimeOut or NoEntry.
C6_Witness ==
  /\ HasSlot(records, Root, Hint)
  /\ records[Root][Hint].v = <<RNS(ARoot), RNS(ARoot)>>
  /\ get_record_set(CurDB, Root, "NS") = {<<RNS(ARoot)>>}
  /\ get_record_set(CurDB, ARoot, "A") = {<<RA(1)>>}
  /\ \E nm \in DOMAIN records : \E s \in DOMAIN records[nm] :
       records[nm][s].k \in {"TimeOut", "NoEntry"}

\* C7: every answer target (name, type) has the target (name, type, .), and
\* no step removes a target.
C7_AnswerTargetsRooted ==
  [][/\ \A t \in answer_targets' : <<t[1], t[2], Root>> \in targets'
     /\ targets \subseteq targets']_vars

\* An answer target is there, along with a target for another zone.
C7_Witness ==
  /\ <<Google, "A">> \in answer_targets
  /\ <<Google, "A", Com>> \in targets

\* C8: find_closest_domain(n) returns an ancestor of n or n itself, no
\* stored name with more labels is one too, and it is the root when no
\* stored name qualifies.
C8_ClosestDomain ==
  \A n \in Names :
    LET r == find_closest_domain(CurDB, n)
    IN /\ ZoneOf(r, n)
       /\ \A x \in DOMAIN records : ZoneOf(x, n) => Len(x) <= Len(r)
       /\ (\A x \in DOMAIN records : ~ZoneOf(x, n)) => r = Root

\* ., com. and google.com. are stored (and names that are no ancestors), and
\* the closest domain of mail.google.com. is google.com.
C8_Witness ==
  /\ {Root, Com, Google, ARoot, ComNs} \subseteq DOMAIN records
  /\ find_closest_domain(CurDB, Mail) = Google
  /\ find_closest_domain(CurDB, ComNs) = ComNs
  /\ find_closest_domain(CurDB, ARoot) = ARoot

\* C9: a call of add_answer_target changes the change counter only if
\* answer_targets or targets grew; a call with arguments that are there
\* already leaves answer_targets, targets and change_num unchanged.
C9_AnswerTargetIdempotent ==
  [][\A t \in ApiAnswerTargets :
       Calls(Call("add_answer_target", t[1], t[2], NoIp)) =>
         /\ change_num' # change_num =>
              (answer_targets' # answer_targets \/ targets' # targets)
         /\ (t \in answer_targets /\ <<t[1], t[2], Root>> \in targets) =>
              UNCHANGED <<answer_targets, targets, change_num>>]_vars

\* C10: after a call of generate_queries, a second call, with nothing in
\* between, enqueues no probe: it leaves the queue as the first call left it.
C10_PlannerIdempotent ==
  [][GenerateQueries =>
       \A g \in generate_queries(CurDB, query_queue)' :
         g.queue = query_queue']_vars

\* The sequences of pushes that the planning pass of this step made: those
\* whose push_front, one by one, turn the old queue into the new one.
PushesMade ==
  {p \in PlannerPushes(CurDB) : query_queue' = Reverse(p) \o query_queue}

\* C11: the queue is FIFO: the probes that the planning pass of an
\* action_loop iteration enqueued are dispatched (taken from the front of
\* the queue) in the order in which they were enqueued.
C11_QueueFifo ==
  [][LoopGenerate =>
       \A p \in PushesMade : SubSeq(query_queue', 1, Len(p)) = p]_vars

\* C12: a probe whose exchange fails with another error than a timeout leaves
\* records, targets and delegations unchanged and does not end the loop:
\* perform_queries goes on with the probes that remain in the queue.
C12_ErrorKeepsLoop ==
  [][(QueryPanic /\ pc = "loop_perform") =>
       /\ UNCHANGED <<records, targets, delegations>>
       /\ pc' = pc]_vars

\* Nothing is queued and a planning pass enqueues nothing.
Quiet ==
  /\ query_queue = << >>
  /\ \A g \in generate_queries(CurDB, query_queue) :
       g.queue = << >> /\ g.change_num = change_num

\* C13: the fixed point is stable. When action_loop returns, either its
\* while condition is false on entry of a second call (the counter is 0), or
\* the store is quiet; and every step of an action_loop on a quiet store
\* leaves it quiet, dispatches no probe and leaves records, targets and
\* delegations unchanged. Hence a second call performs zero ingests.
C13_FixedPointStable ==
  [][/\ LoopExit => (change_num' = 0 \/ Quiet')
     /\ (InLoop /\ Quiet) =>
          /\ Quiet'
          /\ ~QueryStep
          /\ UNCHANGED <<records, targets, delegations>>]_vars

\* An iteration of action_loop on the store that an action_loop over the
\* servers of S2 has left: the counter is stable and the store is quiet.
C13_Witness ==
  /\ transport = "S2" /\ S2Seeded /\ GoogleResolved
  /\ pc = "loop_perform" /\ loop_change_num = change_num /\ change_num # 0
  /\ Quiet

\* The store as RecordDB::new leaves it.
NewStore ==
  /\ CurDB = NewDB
  /\ query_queue = << >>

\* C14: on a newly constructed store action_loop makes exactly one
\* plan/execute pass: its while condition holds at the first test (and, no
\* probe being planned, fails at the second).
C14_NewStoreOnePass ==
  [][(ActionLoop /\ NewStore) =>
       /\ loop_change_num' # change_num'
       /\ \A g \in generate_queries(CurDB, query_queue) : g.queue = << >>]_vars

\* The names that the stored NS values of the zone give.
NsNames(zone) == {rd.n : rd \in StoredValues(zone, "NS")}

\* The zone of the target has NS records, none of them with an A record.
MissingGlue(t) ==
  /\ NsNames(t[3]) # {}
  /\ \A ns \in NsNames(t[3]) : StoredValues(ns, "A") = {}

AllMissingGlue == targets # {} /\ \A t \in targets : MissingGlue(t)

\* C15: missing glue does not deadlock. For a target whose zone has NS
\* records but whose NS names have no A records, generate_queries enqueues no
\* probe and leaves the change counter as it is; and an action_loop over
\* such targets returns.
C15_MissingGlue ==
  /\ [](\A t \in targets : MissingGlue(t) =>
          /\ \A p \in PlannerPushes(CurDB) : \A i \in 1..Len(p) :
               <<p[i].name, p[i].rtype, p[i].zone>> # <<t[1], t[2], <<t[3]>>>>
          /\ \A g \in generate_queries([CurDB EXCEPT !.targets = {t}], query_queue) :
               g.queue = query_queue /\ g.change_num = change_num)
  /\ (InLoop /\ AllMissingGlue) ~> (pc = "idle")

\* The planning pass of an action_loop iteration is over, all targets lack
\* glue, and the counter is as it was at the start of the iteration.
C15_Witness ==
  /\ AllMissingGlue
  /\ pc = "loop_perform"
  /\ loop_change_num = change_num
  /\ query_queue = << >>

\* The thread is about to dispatch the probe at the front of the queue.
Dispatching == pc \in {"perform", "loop_perform"} /\ query_queue # << >>

\* The response has no record in the answer section of any message.
NoAnswerRecord(o) ==
  o.kind = "response" /\ \A i \in 1..Len(o.msgs) : o.msgs[i].answers = << >>

\* Some additional or authority record of the response is owned by the name.
OwnedRecord(o, name) ==
  \E i \in 1..Len(o.msgs) :
    \E rec \in Range(o.msgs[i].additionals) \cup Range(o.msgs[i].name_servers) :
      rec.name = name

\* C16: the ingest of a response without any answer-section record applies
\* add_rentry(name, NoEntry, ip): the server's slot for the name is NoEntry
\* afterwards, unless it holds Entries (which NoEntry never replaces). With
\* the servers of S4 (empty answer and authority sections) every dispatch
\* leaves NoEntry in the queried server's slot, and when action_loop ends
\* the slot of the queried root server is NoEntry and
\* get_record_set(google.com., A) is empty.
C16_NoEntryOnEmptyAnswer ==
  /\ [](Dispatching =>
          LET q == Head(query_queue)
              s == RServerFrom(q.ip)
              old == SlotOf(records, q.name, s)
          IN \A o \in Outcomes(q.ip, q.name, q.rtype) :
               NoAnswerRecord(o) =>
                 LET d == query_record(CurDB, q.ip, q.name, q.rtype, q.zone, o)
                     new == SlotOf(d.records, q.name, s)
                 IN /\ new # << >>
                    /\ new[1].k =
                         IF (old # << >> /\ old[1].k = "Entries")
                            \/ OwnedRecord(o, q.name)
                         THEN "Entries" ELSE "NoEntry")
  /\ [][(transport = "S4" /\ QueryStep) =>
          LET q == Head(query_queue)
              s == RServerFrom(q.ip)
          IN IF HasSlot(records, q.name, s) /\ records[q.name][s].k = "Entries"
             THEN SlotOf(records', q.name, s) = SlotOf(records, q.name, s)
             ELSE SlotOf(records', q.name, s) = <<NoEntry>>]_vars
  /\ []((transport = "S4" /\ S2Seeded /\ LoopEnds) =>
          /\ SlotOf(records, Google, RServerFrom(V4(1))) = <<NoEntry>>
          /\ get_record_set(CurDB, Google, "A") = {<< >>})

\* action_loop ends over the servers of S4: the root server was queried and
\* its slot for google.com. holds NoEntry.
C16_Witness ==
  /\ transport = "S4" /\ S2Seeded /\ LoopEnds
  /\ SlotOf(records, Google, RServerFrom(V4(1))) = <<NoEntry>>
  /\ get_record_set(CurDB, Google, "A") = {<< >>}

\* C17: every completed ingest closes the gap that caused it: after the
\* exchange of the probe (name, type, ip) has ended in a timeout or in a
\* response, whatever its content, the name has a slot for the server ip
\* (holding Entries, TimeOut or NoEntry).
C17_IngestClosesGap ==
  [][QueryStep =>
       LET q == Head(query_queue)
       IN /\ HasSlot(records', q.name, RServerFrom(q.ip))
          /\ records'[q.name][RServerFrom(q.ip)].k
               \in {"Entries", "TimeOut", "NoEntry"}]_vars

\* The triples (target, ns, ip): ns an NS value of the target's zone, ip an A
\* value of ns, and the target's name without a slot for the server ip.
MissingTriples ==
  {x \in {<<t, ns, rd>> : t \in targets, ns \in Names, rd \in {RA(i) : i \in 0..5}} :
     /\ x[2] \in NsNames(x[1][3])
     /\ x[3] \in StoredValues(x[2], "A")
     /\ ~HasSlot(records, x[1][1], RServerFrom(ToIpAddr(x[3])))}

\* C18: generate_queries enqueues the probe (name, type, ip, Some(zone))
\* exactly for the triples (target, ns, ip) for which the name has no slot
\* for ip: one enqueue and one bump of the counter per triple, and no probe
\* for an ip that has a slot under the name.
C18_EnqueuePerTriple ==
  [][(GenerateQueries \/ LoopGenerate) =>
       LET n == Len(query_queue') - Len(query_queue)
           new == SubSeq(query_queue', 1, n)
       IN /\ n = Cardinality(MissingTriples)
          /\ change_num' = (change_num + Cardinality(MissingTriples)) % CounterMod
          /\ Range(new) =
               {Probe(x[1][1], x[1][2], ToIpAddr(x[3]), x[1][3]) : x \in MissingTriples}]_vars

\* C19: no retry: during action_loop a probe for a name is dispatched to a
\* server only if, at dispatch time, the name has no slot for that server;
\* so no (name, ip) pair is queried twice and a server whose slot is TimeOut
\* is not queried again for the name.
C19_NoRetry ==
  [][((QueryStep \/ QueryPanic) /\ pc = "loop_perform") =>
       LET q == Head(query_queue)
       IN ~HasSlot(records, q.name, RServerFrom(q.ip))]_vars

\* The owner names of the NS records in the authority sections of a response.
NsOwners(o) ==
  {rec.name : rec \in {r \in UNION {Range(o.msgs[i].name_servers) : i \in 1..Len(o.msgs)} :
                         r.rdata.t = "NS"}}

\* C20: the ingest of the response to a probe (name, type) registers a new
\* target (name, type, z) only when (name, type) is an answer target and z is
\* the owner name of an NS record in the authority section of the response;
\* a probe that is not for an answer target adds no target, and authority
\* records that are no NS records (an SOA) add none.
C20_TargetOnlyForNs ==
  [][QueryStep =>
       LET q == Head(query_queue)
       IN \A t \in targets' \ targets :
            /\ t[1] = q.name /\ t[2] = q.rtype
            /\ <<q.name, q.rtype>> \in answer_targets
            /\ \E o \in Outcomes(q.ip, q.name, q.rtype) : t[3] \in NsOwners(o)]_vars

\* No planner gap: for every target (n, t, z), every NS name ns that
\* get_record_set(z, NS) returns and every address a that
\* get_record_set(ns, A) returns, n has a slot for the server a.
NoGap ==
  \A t \in targets :
    \A zone_ns \in get_record_set(CurDB, t[3], "NS") : \A i \in 1..Len(zone_ns) :
      \A ns_ips \in get_record_set(CurDB, zone_ns[i].n, "A") : \A j \in 1..Len(ns_ips) :
        HasSlot(records, t[1], RServerFrom(ToIpAddr(ns_ips[j])))

\* Every mutator but add_root_hints bumps the counter, so after a call of
\* one of them the counter is 0 only when its arithmetic has wrapped around.
CounterWrapped ==
  change_num = 0 /\ \E c \in BagToSet(called) : c.op # "add_root_hints"

\* C21: whenever action_loop returns (its while condition is false), the
\* query queue is empty and no planner gap remains. The returns of a loop
\* that starts on the counter value 0 reached by wrap-around are left out:
\* such a loop returns at its first test, whatever the store holds.
C21_LoopPostcondition ==
  (LoopEnds /\ ~CounterWrapped) => (query_queue = << >> /\ NoGap)

\* action_loop returns after at least one pass: a target's zone has a name
\* server with an address, the queue is empty and no gap remains.
C21_Witness ==
  /\ LoopEnds /\ change_num # 0
  /\ \E t \in targets : \E ns \in NsNames(t[3]) : StoredValues(ns, "A") # {}
  /\ query_queue = << >> /\ NoGap

====
